---- MODULE Spec2Model ----
(***************************************************************************)
(* Model of the nearest-station resolver and of the "interpolated map"     *)
(* operations of dashboard-climatico.                                      *)
(*                                                                         *)
(*   utils.py : carregar_dados_estacoes, localizar_estacao_proxima,        *)
(*              mapa_interpolado                                           *)
(*   app.py   : carregar_dados, plot_map_thermal,                          *)
(*              encontrar_estacao_proxima, main                            *)
(*                                                                         *)
(* A Python dict is modelled as a sequence of <<key, value>> pairs in      *)
(* insertion order (dicts iterate in insertion order).  A DataFrame is a   *)
(* sequence of rows, each row a record of its columns.                     *)
(***************************************************************************)
EXTENDS Integers, Sequences, FiniteSets, TLC

VARIABLES
    lat_user,        \* sidebar input "Latitude sua localização"
    lon_user,        \* sidebar input "Longitude sua localização"
    estacoes_coords, \* utils.py registry: <<nome, <<lat, lon>>>> in insertion order
    dfs,             \* app.py loaded data: <<nome, DataFrame>> in insertion order
    ret_utils,       \* what the last call of localizar_estacao_proxima returned
    ret_app,         \* what the last call of encontrar_estacao_proxima returned
    repetida,        \* the last resolver call repeated a call on the same inputs
    planilha,        \* raw sheet: <<nome, raw rows>> as read_csv / get_all_records give them
    estacoes,        \* utils.py loaded data: <<nome, DataFrame>>
    mapa,            \* what mapa_interpolado returned
    fig,             \* what plot_map_thermal returned
    detectar_auto,   \* sidebar checkbox "Detectar estação mais próxima automaticamente"
    estacao_selecionada, \* main's local of that name
    pc               \* position in the map pipelines and in main

vars == <<lat_user, lon_user, estacoes_coords, dfs, ret_utils, ret_app, repetida,
          planilha, estacoes, mapa, fig, detectar_auto, estacao_selecionada, pc>>

-----------------------------------------------------------------------------
(* Bounds of the model.                                                    *)

\* coordinates lie on the grid 0..GridMax x 0..GridMax (one unit = 0.1 degree)
GridMax == 2
\* the resolver is given at most this many stations
MaxEstacoes == 2
\* a raw sheet tab holds at most this many rows
MaxLinhas == 2
\* valid dates of a sheet are 1..MaxData
MaxData == 2

-----------------------------------------------------------------------------
(* Values.                                                                 *)

\* pd.to_datetime(..., errors='coerce') turns an invalid date into NaT
NaT == 0
\* a missing cell of a numeric column
NaN == "NaN"
\* Python's None
None == "None"
\* the exception of df[...].iloc[0] / iloc[-1] on a DataFrame with no rows
IndexError == "IndexError"
\* the result variable of a function that has not been called
NaoChamado == "NaoChamado"
\* the same for a function that returns an object
SemResultado == [tipo |-> NaoChamado]

\* station names, in the order of utils.URLS_CSV
URLS_CSV == <<"Garibaldi", "Bento Goncalves", "Farroupilha", "Monte Belo">>

Lats == 0..GridMax
Lons == 0..GridMax
Coords == Lats \X Lons
Datas == 1..MaxData
Temps == {"20.0"}
\* the columns of a raw sheet: a date that may be invalid, a value that may be missing
DatasBrutas == {NaT} \cup Datas
TempsBrutas == {NaN} \cup Temps

-----------------------------------------------------------------------------
(* Dict helpers.                                                           *)

keys(d) == {d[i][1] : i \in DOMAIN d}

\* d[k], for a key k of d
get(d, k) == d[CHOOSE i \in DOMAIN d : d[i][1] = k][2]

-----------------------------------------------------------------------------
(* geopy.distance.geodesic(p, q).kilometers                                *)
(*                                                                         *)
(* The library computes the ellipsoidal distance.  The model works on a    *)
(* grid of 0.1 degree around latitude -29: one step of latitude is 11 km,  *)
(* one step of longitude 10 km, and the distance is returned squared (an   *)
(* integer), which orders pairs of points exactly as the distance does.    *)
(* It is 0 exactly when the two points are equal.                          *)
geodesic(p, q) ==
    LET dlat == 11 * (p[1] - q[1])
        dlon == 10 * (p[2] - q[2])
    IN  dlat * dlat + dlon * dlon

-----------------------------------------------------------------------------
(* utils.localizar_estacao_proxima                                         *)

\* float("inf"), and the running minimum of the scan
Infinito == [inf |-> TRUE, km |-> 0]
Finito(d) == [inf |-> FALSE, km |-> d]

\* dist < menor_dist
menor_que(dist, menor_dist) == menor_dist.inf \/ dist < menor_dist.km

\* the mutant of the comparison: dist <= menor_dist
menor_ou_igual(dist, menor_dist) == menor_dist.inf \/ dist <= menor_dist.km

\* the mutant of the comparison: dist > menor_dist
maior_que(dist, menor_dist) == menor_dist.inf \/ dist > menor_dist.km

\* `if dist < menor_dist`
atualiza(dist, menor_dist) == menor_que(dist, menor_dist)

RECURSIVE scan(_, _, _, _, _)
\* the loop body from item i on, with the loop's two locals
scan(user, coords, i, menor_dist, estacao_mais_proxima) ==
    IF i > Len(coords) THEN estacao_mais_proxima
    ELSE LET nome == coords[i][1]
             dist == geodesic(user, coords[i][2])
         IN  IF atualiza(dist, menor_dist)
             THEN scan(user, coords, i + 1, Finito(dist), nome)
             ELSE scan(user, coords, i + 1, menor_dist, estacao_mais_proxima)

\* the mutant of the initialisation: menor_dist = 0
localizar_desde_zero(lat, lon, coords) ==
    scan(<<lat, lon>>, coords, 1, Finito(0), None)

localizar_estacao_proxima(lat, lon, coords) ==
    scan(<<lat, lon>>, coords, 1, Infinito, None)

-----------------------------------------------------------------------------
(* app.encontrar_estacao_proxima                                           *)

\* list.sort(key=lambda x: x[1]): Python's sort is stable. Insertion of x
\* after every item whose key is <= its own.
RECURSIVE insere(_, _)
insere(x, s) ==
    IF s = <<>> THEN <<x>>
    ELSE IF s[1][2] <= x[2] THEN <<s[1]>> \o insere(x, Tail(s))
         ELSE <<x>> \o s

\* the mutant of the sort: an item goes before the items of equal key
RECURSIVE insere_antes(_, _)
insere_antes(x, s) ==
    IF s = <<>> THEN <<x>>
    ELSE IF s[1][2] < x[2] THEN <<s[1]>> \o insere_antes(x, Tail(s))
         ELSE <<x>> \o s

RECURSIVE sort_antes(_)
sort_antes(s) ==
    IF s = <<>> THEN <<>>
    ELSE insere_antes(s[Len(s)], sort_antes(SubSeq(s, 1, Len(s) - 1)))

RECURSIVE sort(_)
sort(s) ==
    IF s = <<>> THEN <<>>
    ELSE insere(s[Len(s)], sort(SubSeq(s, 1, Len(s) - 1)))

\* the for loop: the list of (nome, dist); df[...].iloc[0] raises IndexError
\* on a DataFrame with no rows, which ends the call
RECURSIVE distancias(_, _, _)
distancias(user, d, i) ==
    IF i > Len(d) THEN [raises |-> FALSE, estacoes |-> <<>>]
    ELSE LET df == d[i][2]
         IN  IF df = <<>> THEN [raises |-> TRUE, estacoes |-> <<>>]
             ELSE LET lat  == df[1].Latitude
                      lon  == df[1].Longitude
                      dist == geodesic(user, <<lat, lon>>)
                      rest == distancias(user, d, i + 1)
                  IN  IF rest.raises THEN rest
                      ELSE [raises |-> FALSE,
                            estacoes |-> <<(<<d[i][1], dist>>)>> \o rest.estacoes]

\* the mutant of the return: estacoes[0][0] without the `if estacoes` guard
primeiro_sem_guarda(est) == IF est = <<>> THEN IndexError ELSE est[1][1]

\* `return estacoes[0][0] if estacoes else None`
primeiro(est) == IF est = <<>> THEN None ELSE est[1][1]

encontrar_estacao_proxima(lat, lon, d) ==
    LET r == distancias(<<lat, lon>>, d, 1)
    IN  IF r.raises THEN IndexError
        ELSE primeiro(sort(r.estacoes))

-----------------------------------------------------------------------------
(* The resolver called from the dashboard: the loaded data and the user's  *)
(* point are the inputs, and the user may move the point between calls.    *)

\* a row of a loaded sheet (app.EXPECTED_COLUMNS, the columns the model reads)
Linha(datas, lats, lons, temps) ==
    [Data : datas, Latitude : lats, Longitude : lons, Temperatura_Med : temps]

\* the DataFrames the resolver is given: no row, or the station's row
DFsResolver == {<<>>} \cup {<<r>> : r \in Linha({1}, Lats, Lons, Temps)}

\* the dicts of n stations, named in the order of URLS_CSV
Dicts(n, valores) ==
    {[i \in 1..n |-> <<URLS_CSV[i], f[i]>>] : f \in [1..n -> valores]}

\* the registry of station coordinates the data gives: every station that
\* has a row, with the coordinates of its first row
RECURSIVE registro(_, _)
registro(d, i) ==
    IF i > Len(d) THEN <<>>
    ELSE IF d[i][2] = <<>> THEN registro(d, i + 1)
         ELSE <<(<<d[i][1], <<d[i][2][1].Latitude, d[i][2][1].Longitude>>>>)>>
              \o registro(d, i + 1)

Init ==
    /\ lat_user = 0
    /\ lon_user = 0
    /\ \E n \in 0..MaxEstacoes : dfs \in Dicts(n, DFsResolver)
    /\ estacoes_coords = registro(dfs, 1)
    /\ ret_utils = NaoChamado
    /\ ret_app = NaoChamado
    /\ repetida = FALSE
    /\ detectar_auto = TRUE
    /\ estacao_selecionada = NaoChamado
    /\ planilha = <<>>
    /\ estacoes = <<>>
    /\ mapa = SemResultado
    /\ fig = SemResultado
    /\ pc = "resolver"

\* st.sidebar.number_input: the user gives another point; the script reruns
MudarLocalizacao ==
    /\ pc = "resolver"
    /\ \E lat \in Lats, lon \in Lons :
          /\ <<lat, lon>> # <<lat_user, lon_user>>
          /\ lat_user' = lat
          /\ lon_user' = lon
    /\ ret_utils' = NaoChamado
    /\ ret_app' = NaoChamado
    /\ repetida' = FALSE
    /\ UNCHANGED <<detectar_auto, estacao_selecionada,
                   estacoes_coords, dfs, planilha, estacoes, mapa, fig, pc>>

\* a call of utils.localizar_estacao_proxima: it assigns only to its locals
ChamarLocalizar ==
    /\ pc = "resolver"
    /\ ret_utils' = localizar_estacao_proxima(lat_user, lon_user, estacoes_coords)
    /\ repetida' = (ret_utils # NaoChamado)
    /\ UNCHANGED <<detectar_auto, estacao_selecionada,
                   lat_user, lon_user, estacoes_coords, dfs, ret_app,
                   planilha, estacoes, mapa, fig, pc>>

\* the mutant of the call: the sort is done on the dict itself, in place
RECURSIVE insere_df(_, _, _)
insere_df(user, x, s) ==
    IF s = <<>> THEN <<x>>
    ELSE IF geodesic(user, <<s[1][2][1].Latitude, s[1][2][1].Longitude>>)
             <= geodesic(user, <<x[2][1].Latitude, x[2][1].Longitude>>)
         THEN <<s[1]>> \o insere_df(user, x, Tail(s))
         ELSE <<x>> \o s

RECURSIVE sort_dfs(_, _)
sort_dfs(user, d) ==
    IF d = <<>> THEN <<>>
    ELSE insere_df(user, d[Len(d)], sort_dfs(user, SubSeq(d, 1, Len(d) - 1)))

ChamarEncontrarOrdenaDict ==
    /\ pc = "resolver"
    /\ ret_app' = encontrar_estacao_proxima(lat_user, lon_user, dfs)
    /\ repetida' = (ret_app # NaoChamado)
    /\ dfs' = IF ret_app' = IndexError THEN dfs
              ELSE sort_dfs(<<lat_user, lon_user>>, dfs)
    /\ UNCHANGED <<detectar_auto, estacao_selecionada,
                   lat_user, lon_user, estacoes_coords, ret_utils,
                   planilha, estacoes, mapa, fig, pc>>

\* a call of app.encontrar_estacao_proxima: it sorts its own list `estacoes`
\* and reads dfs only
ChamarEncontrar ==
    /\ pc = "resolver"
    /\ ret_app' = encontrar_estacao_proxima(lat_user, lon_user, dfs)
    /\ repetida' = (ret_app # NaoChamado)
    /\ UNCHANGED <<detectar_auto, estacao_selecionada,
                   lat_user, lon_user, estacoes_coords, dfs, ret_utils,
                   planilha, estacoes, mapa, fig, pc>>

Next == MudarLocalizacao \/ ChamarLocalizar \/ ChamarEncontrar

Spec == Init /\ [][Next]_vars

-----------------------------------------------------------------------------
(* The map pipelines: utils.carregar_dados_estacoes then                   *)
(* utils.mapa_interpolado; app.carregar_dados then app.plot_map_thermal.   *)

\* the stations of the map pipelines
EstacoesMapa == <<URLS_CSV[1], URLS_CSV[2], URLS_CSV[3]>>

\* the raw tabs: at most MaxLinhas rows of (Data, Temperatura)
RECURSIVE Tabs(_)
Tabs(n) ==
    IF n = 0 THEN {<<>>}
    ELSE Tabs(n - 1) \cup
         {Append(t, r) : t \in {u \in Tabs(n - 1) : Len(u) = n - 1},
                         r \in [Data : DatasBrutas, Temperatura : TempsBrutas]}

Planilhas == {[i \in DOMAIN EstacoesMapa |-> <<EstacoesMapa[i], f[i]>>] :
                 f \in [DOMAIN EstacoesMapa -> Tabs(MaxLinhas)]}

Registros == {[i \in DOMAIN EstacoesMapa |-> <<EstacoesMapa[i], f[i]>>] :
                 f \in [DOMAIN EstacoesMapa -> Coords]}

\* three stations that are not on a line, each with one valid reading
RegistroPadrao ==
    [i \in DOMAIN EstacoesMapa |->
        <<EstacoesMapa[i], <<(IF i = 2 THEN 1 ELSE 0), (IF i = 3 THEN 1 ELSE 0)>>>>]
PlanilhaPadrao ==
    [i \in DOMAIN EstacoesMapa |->
        <<EstacoesMapa[i], <<[Data |-> 1, Temperatura |-> "20.0"]>>>>]

\* the sheet app.py reads holds the station's coordinates in every row
RECURSIVE com_coordenadas(_, _)
com_coordenadas(tab, c) ==
    IF tab = <<>> THEN <<>>
    ELSE <<[Data |-> tab[1].Data, Latitude |-> c[1], Longitude |-> c[2],
            Temperatura_Med |-> tab[1].Temperatura]>>
         \o com_coordenadas(Tail(tab), c)

PlanilhaApp(plan, reg) ==
    [i \in DOMAIN plan |-> <<plan[i][1], com_coordenadas(plan[i][2], reg[i][2])>>]

\* the inputs vary one at a time around the default registry and sheet
InitMapa ==
    /\ lat_user = 0
    /\ lon_user = 0
    /\ dfs = <<>>
    /\ estacoes = <<>>
    /\ ret_utils = NaoChamado
    /\ ret_app = NaoChamado
    /\ repetida = FALSE
    /\ detectar_auto = TRUE
    /\ estacao_selecionada = NaoChamado
    /\ mapa = SemResultado
    /\ fig = SemResultado
    /\ \E reg \in Registros, plan \in Planilhas :
          /\ reg = RegistroPadrao \/ plan = PlanilhaPadrao
          /\ estacoes_coords = reg
          /\ \/ pc = "utils_csv" /\ planilha = plan
             \/ pc = "app_sheet" /\ planilha = PlanilhaApp(plan, reg)

\* df.dropna(subset=['Data', 'Temperatura']).reset_index(drop=True)
temperatura_valida(r) == r.Temperatura # NaN

linha_valida(r) == r.Data # NaT /\ temperatura_valida(r)

dropna_utils(df) == SelectSeq(df, linha_valida)

\* df.dropna(subset=['Data'], inplace=True)
data_valida(r) == r.Data # NaT
dropna_app(df) == SelectSeq(df, data_valida)

\* utils.carregar_dados_estacoes: one DataFrame per station of URLS_CSV
carregar_dados_estacoes ==
    /\ pc = "utils_csv"
    /\ estacoes' = [i \in DOMAIN planilha |->
                       <<planilha[i][1], dropna_utils(planilha[i][2])>>]
    /\ pc' = "utils_carregado"
    /\ UNCHANGED <<detectar_auto, estacao_selecionada,
                   lat_user, lon_user, estacoes_coords, dfs, ret_utils, ret_app,
                   repetida, planilha, mapa, fig>>

\* the loop of app.carregar_dados from tab i on.  A tab with no record
\* gives a DataFrame with no column: every expected column is missing and
\* the tab is skipped.  A tab with records has the expected columns here; it
\* is kept with the rows whose Data is valid, also when none is.
RECURSIVE dados(_, _)
dados(plan, i) ==
    IF i > Len(plan) THEN <<>>
    ELSE IF plan[i][2] = <<>> THEN dados(plan, i + 1)
         ELSE <<(<<plan[i][1], dropna_app(plan[i][2])>>)>> \o dados(plan, i + 1)

\* app.carregar_dados
carregar_dados ==
    /\ pc = "app_sheet"
    /\ dfs' = dados(planilha, 1)
    /\ pc' = "app_carregado"
    /\ UNCHANGED <<detectar_auto, estacao_selecionada,
                   lat_user, lon_user, estacoes_coords, estacoes, ret_utils,
                   ret_app, repetida, planilha, mapa, fig>>

\* df.sort_values('Data').iloc[-1]: a row of the greatest Data.  sort_values
\* sorts with quicksort, which is not stable: among rows of equal Data any
\* may come last.
ultimas(df) == {i \in DOMAIN df : \A j \in DOMAIN df : df[j].Data <= df[i].Data}

\* `if df is not None and not df.empty`
tem_dados(d, est) == est \in keys(d) /\ get(d, est) # <<>>

\* the loop of mapa_interpolado from station i on: the points appended, given
\* the row sel[i] that iloc[-1] yields for each station
RECURSIVE pontos_de(_, _, _, _)
pontos_de(coords, d, sel, i) ==
    IF i > Len(coords) THEN <<>>
    ELSE LET est == coords[i][1]
             c   == coords[i][2]
         IN  IF tem_dados(d, est)
             THEN <<(<<c[1], c[2], get(d, est)[sel[i]].Temperatura>>)>>
                  \o pontos_de(coords, d, sel, i + 1)
             ELSE pontos_de(coords, d, sel, i + 1)

\* the library calls mapa_interpolado makes, in order: the map, one marker
\* per point, and the heat layer `if pontos`
chamadas_mapa(pontos) ==
    <<"folium.Map">> \o [i \in DOMAIN pontos |-> "folium.CircleMarker"]
    \o (IF pontos # <<>> THEN <<"HeatMap">> ELSE <<>>)

\* utils.mapa_interpolado(estacoes_coords, estacoes): it always returns the map
mapa_interpolado ==
    /\ pc = "utils_carregado"
    /\ \E sel \in [DOMAIN estacoes_coords -> 1..MaxLinhas] :
          /\ \A i \in DOMAIN estacoes_coords :
                IF tem_dados(estacoes, estacoes_coords[i][1])
                THEN sel[i] \in ultimas(get(estacoes, estacoes_coords[i][1]))
                ELSE sel[i] = 1
          /\ LET pontos == pontos_de(estacoes_coords, estacoes, sel, 1)
             IN  mapa' = [tipo |-> "folium.Map",
                          pontos |-> pontos,
                          chamadas |-> chamadas_mapa(pontos)]
    /\ pc' = "utils_mapa"
    /\ UNCHANGED <<detectar_auto, estacao_selecionada,
                   lat_user, lon_user, estacoes_coords, dfs, ret_utils, ret_app,
                   repetida, planilha, estacoes, fig>>

\* the loop of plot_map_thermal: the rows of df_map
df_map_de(d, sel) ==
    [i \in DOMAIN d |->
        LET last == d[i][2][sel[i]]
        IN  [Estacao |-> d[i][1], Lat |-> last.Latitude, Lon |-> last.Longitude,
             Temp_Med |-> last.Temperatura_Med]]

\* app.plot_map_thermal(dfs): iloc[-1] raises IndexError on a DataFrame with
\* no rows; with no station df_map has no column and px.scatter_mapbox raises
\* ValueError; otherwise df_map goes to px.scatter_mapbox as it is
plot_map_thermal ==
    /\ pc = "app_carregado"
    /\ IF \E i \in DOMAIN dfs : dfs[i][2] = <<>>
       THEN fig' = [tipo |-> IndexError]
       ELSE IF dfs = <<>>
       THEN fig' = [tipo |-> "ValueError"]
       ELSE \E sel \in [DOMAIN dfs -> 1..MaxLinhas] :
               /\ \A i \in DOMAIN dfs : sel[i] \in ultimas(dfs[i][2])
               /\ fig' = [tipo |-> "Figure",
                          df_map |-> df_map_de(dfs, sel),
                          chamadas |-> <<"px.scatter_mapbox">>]
    /\ pc' = "app_fig"
    /\ UNCHANGED <<detectar_auto, estacao_selecionada,
                   lat_user, lon_user, estacoes_coords, dfs, ret_utils, ret_app,
                   repetida, planilha, estacoes, mapa>>

NextMapa ==
    carregar_dados_estacoes \/ mapa_interpolado \/ carregar_dados \/ plot_map_thermal

SpecMapa == InitMapa /\ [][NextMapa]_vars

-----------------------------------------------------------------------------
(* app.main: one run of the script, up to the guard on the selected        *)
(* station.                                                                *)

\* the sheet, the checkbox and the default point are the inputs of a run
InitMain ==
    /\ lat_user = 0
    /\ lon_user = 0
    /\ dfs = <<>>
    /\ estacoes = <<>>
    /\ ret_utils = NaoChamado
    /\ ret_app = NaoChamado
    /\ repetida = FALSE
    /\ mapa = SemResultado
    /\ fig = SemResultado
    /\ detectar_auto \in BOOLEAN
    /\ estacao_selecionada = NaoChamado
    /\ \E reg \in Registros, plan \in Planilhas :
          /\ reg = RegistroPadrao \/ plan = PlanilhaPadrao
          /\ estacoes_coords = reg
          /\ planilha = PlanilhaApp(plan, reg)
    /\ pc = "main_inicio"

\* dfs = carregar_dados(...); `if not dfs:` st.error and st.stop
main_carregar ==
    /\ pc = "main_inicio"
    /\ dfs' = dados(planilha, 1)
    /\ pc' = IF dfs' = <<>> THEN "main_stop_sem_dados" ELSE "main_sidebar"
    /\ UNCHANGED <<lat_user, lon_user, estacoes_coords, ret_utils, ret_app,
                   repetida, planilha, estacoes, mapa, fig, detectar_auto,
                   estacao_selecionada>>

\* `if detectar_auto:` the resolver, whose IndexError nothing catches: the run
\* ends with the exception and estacao_selecionada is never assigned;
\* `else:` the selectbox over the keys of dfs
main_selecionar ==
    /\ pc = "main_sidebar"
    /\ IF detectar_auto
       THEN LET r == encontrar_estacao_proxima(lat_user, lon_user, dfs)
            IN  IF r = IndexError
                THEN /\ pc' = "main_IndexError"
                     /\ UNCHANGED estacao_selecionada
                ELSE /\ pc' = "main_guarda"
                     /\ estacao_selecionada' = r
       ELSE /\ pc' = "main_guarda"
            /\ \E nome \in keys(dfs) : estacao_selecionada' = nome
    /\ UNCHANGED <<lat_user, lon_user, estacoes_coords, dfs, ret_utils, ret_app,
                   repetida, planilha, estacoes, mapa, fig, detectar_auto>>

\* df_estacao = dfs.get(estacao_selecionada);
\* `if df_estacao is None or df_estacao.empty:` st.error and st.stop
main_guarda ==
    /\ pc = "main_guarda"
    /\ pc' = IF estacao_selecionada \notin keys(dfs)
                \/ get(dfs, estacao_selecionada) = <<>>
             THEN "main_stop_vazio"
             ELSE "main_painel"
    /\ UNCHANGED <<lat_user, lon_user, estacoes_coords, dfs, ret_utils, ret_app,
                   repetida, planilha, estacoes, mapa, fig, detectar_auto,
                   estacao_selecionada>>

NextMain == main_carregar \/ main_selecionar \/ main_guarda

SpecMain == InitMain /\ [][NextMain]_vars

-----------------------------------------------------------------------------
(* Claims about the resolver.                                              *)

user == <<lat_user, lon_user>>

\* coordinates of station i of the utils registry / of the app data
coord_utils(i) == estacoes_coords[i][2]
coord_app(i) == <<dfs[i][2][1].Latitude, dfs[i][2][1].Longitude>>

\* every station of the app data has coordinates (a first row)
TemCoordenadas == \A i \in DOMAIN dfs : dfs[i][2] # <<>>

\* the calls the claims speak of: made, on a non-empty station mapping
\* in which every station has coordinates
UtilsResolveu == ret_utils # NaoChamado /\ estacoes_coords # <<>>
AppResolveu == ret_app # NaoChamado /\ dfs # <<>> /\ TemCoordenadas

\* C1: on a non-empty station mapping the resolver returns a key of the
\* mapping whose distance to the user point is less than or equal to the
\* distance of every station of the mapping (both implementations).
C1_NomeMaisProximo ==
    /\ UtilsResolveu =>
          \E i \in DOMAIN estacoes_coords :
             /\ estacoes_coords[i][1] = ret_utils
             /\ \A j \in DOMAIN estacoes_coords :
                   geodesic(user, coord_utils(i)) <= geodesic(user, coord_utils(j))
    /\ AppResolveu =>
          \E i \in DOMAIN dfs :
             /\ dfs[i][1] = ret_app
             /\ \A j \in DOMAIN dfs :
                   geodesic(user, coord_app(i)) <= geodesic(user, coord_app(j))

\* both implementations have answered for two stations at different
\* distances, the nearer one being the second of the mapping
C1_Witness ==
    /\ UtilsResolveu /\ AppResolveu
    /\ Len(dfs) >= 2
    /\ geodesic(user, coord_app(2)) < geodesic(user, coord_app(1))
    /\ ret_utils = dfs[2][1]
    /\ ret_app = dfs[2][1]

\* C2: when several stations are at the minimum distance, the resolver
\* returns the one that comes first in the insertion order of the mapping
\* (both implementations).
C2_EmpatePrimeiro ==
    /\ UtilsResolveu =>
          \A i \in DOMAIN estacoes_coords :
             (/\ \A j \in DOMAIN estacoes_coords :
                    geodesic(user, coord_utils(i)) <= geodesic(user, coord_utils(j))
              /\ \A j \in 1..(i - 1) :
                    geodesic(user, coord_utils(i)) < geodesic(user, coord_utils(j)))
             => ret_utils = estacoes_coords[i][1]
    /\ AppResolveu =>
          \A i \in DOMAIN dfs :
             (/\ \A j \in DOMAIN dfs :
                    geodesic(user, coord_app(i)) <= geodesic(user, coord_app(j))
              /\ \A j \in 1..(i - 1) :
                    geodesic(user, coord_app(i)) < geodesic(user, coord_app(j)))
             => ret_app = dfs[i][1]

\* both implementations have answered for two stations in different places
\* at the same, minimum, distance, and the answer is the first of them
C2_Witness ==
    /\ UtilsResolveu /\ AppResolveu
    /\ Len(dfs) >= 2
    /\ coord_app(1) # coord_app(2)
    /\ geodesic(user, coord_app(1)) = geodesic(user, coord_app(2))
    /\ \A j \in DOMAIN dfs :
          geodesic(user, coord_app(1)) <= geodesic(user, coord_app(j))
    /\ ret_utils = dfs[1][1]
    /\ ret_app = dfs[1][1]

\* C3: called with an empty station mapping, the resolver returns None: it
\* does not raise and returns no station name (both implementations).
C3_VazioNone ==
    /\ (ret_utils # NaoChamado /\ estacoes_coords = <<>>) => ret_utils = None
    /\ (ret_app # NaoChamado /\ dfs = <<>>) => ret_app = None

\* both implementations have been called with an empty mapping
C3_Witness ==
    /\ dfs = <<>> /\ estacoes_coords = <<>>
    /\ ret_utils = None /\ ret_app = None

\* C4 as claimed: for every station S of the mapping, when the user
\* coordinates equal those of S the resolver returns S, also when another
\* station has the same coordinates.
C4_Original ==
    /\ UtilsResolveu =>
          \A i \in DOMAIN estacoes_coords :
             coord_utils(i) = user => ret_utils = estacoes_coords[i][1]
    /\ AppResolveu =>
          \A i \in DOMAIN dfs :
             coord_app(i) = user => ret_app = dfs[i][1]

\* C4 as amended: for every station S of the mapping, when the user
\* coordinates equal those of S and no station before S in the insertion
\* order has the same coordinates, the resolver returns S (of several
\* stations at the user's coordinates, the first is returned).
C4_DistanciaZero ==
    /\ UtilsResolveu =>
          \A i \in DOMAIN estacoes_coords :
             (/\ coord_utils(i) = user
              /\ \A j \in 1..(i - 1) : coord_utils(j) # coord_utils(i))
             => ret_utils = estacoes_coords[i][1]
    /\ AppResolveu =>
          \A i \in DOMAIN dfs :
             (/\ coord_app(i) = user
              /\ \A j \in 1..(i - 1) : coord_app(j) # coord_app(i))
             => ret_app = dfs[i][1]

\* the user stands on the second station, the first is elsewhere, and both
\* implementations have answered
C4_Witness ==
    /\ UtilsResolveu /\ AppResolveu
    /\ Len(dfs) >= 2
    /\ coord_app(2) = user
    /\ coord_app(1) # user
    /\ ret_utils = dfs[2][1]
    /\ ret_app = dfs[2][1]

C10_Equivalentes ==
    (/\ ret_utils # NaoChamado /\ ret_app # NaoChamado
     /\ TemCoordenadas
     /\ Len(estacoes_coords) = Len(dfs)
     /\ \A i \in DOMAIN dfs :
           /\ estacoes_coords[i][1] = dfs[i][1]
           /\ coord_utils(i) = coord_app(i))
    => ret_app = ret_utils

\* both were called on two stations in different places at the same
\* distance from the user
C10_Witness ==
    /\ UtilsResolveu /\ AppResolveu
    /\ Len(dfs) >= 2
    /\ coord_app(1) # coord_app(2)
    /\ geodesic(user, coord_app(1)) = geodesic(user, coord_app(2))
    /\ ret_app = ret_utils
    /\ ret_app \in keys(dfs)

-----------------------------------------------------------------------------
(* Claims about the interpolated map.                                      *)

\* the samples with a value
validos(pontos) == Cardinality({i \in DOMAIN pontos : pontos[i][3] # NaN})
validos_df_map(df_map) ==
    Cardinality({i \in DOMAIN df_map : df_map[i].Temp_Med # NaN})

feito(chamadas, c) == \E i \in DOMAIN chamadas : chamadas[i] = c

\* C5: with fewer than 3 stations supplying a valid value, the map
\* operation signals InsufficientSamples and builds no grid or heat layer:
\* it does not attempt the visualization with 1 or 2 points
\* (mapa_interpolado and plot_map_thermal).  With no valid value at all the
\* condition to signal is AllMissingValues, so the case stated is 1 or 2.
C5_AmostrasInsuficientes ==
    /\ (pc = "utils_mapa" /\ validos(mapa.pontos) \in {1, 2}) =>
          /\ mapa.tipo = "InsufficientSamples"
          /\ ~feito(mapa.chamadas, "HeatMap")
    /\ (pc = "app_fig" /\ fig.tipo = "Figure"
           /\ validos_df_map(fig.df_map) \in {1, 2}) =>
          /\ fig.tipo = "InsufficientSamples"
          /\ ~feito(fig.chamadas, "px.scatter_mapbox")

\* C6: no point of the set handed to the heat layer carries a missing
\* value, and every value is one that was read, not a zero put in its place
\* (mapa_interpolado and plot_map_thermal).
C6_SemValoresAusentes ==
    /\ pc = "utils_mapa" =>
          \A i \in DOMAIN mapa.pontos : mapa.pontos[i][3] \in Temps
    /\ (pc = "app_fig" /\ fig.tipo = "Figure") =>
          \A i \in DOMAIN fig.df_map : fig.df_map[i].Temp_Med \in Temps

\* all samples on one latitude, or all on one longitude
degenerada(pontos) ==
    \/ \A i, j \in DOMAIN pontos : pontos[i][1] = pontos[j][1]
    \/ \A i, j \in DOMAIN pontos : pontos[i][2] = pontos[j][2]

\* C7: when the samples (3 or more) all have the same latitude, or all the
\* same longitude, mapa_interpolado signals DegenerateGeometry instead of
\* computing a map.
C7_GeometriaDegenerada ==
    (/\ pc = "utils_mapa"
     /\ validos(mapa.pontos) >= 3
     /\ degenerada(mapa.pontos))
    => mapa.tipo = "DegenerateGeometry"

\* the interpolation methods among the calls made, in order
eh_griddata(c) == c \in {"griddata:cubic", "griddata:linear", "griddata:nearest"}
metodos(chamadas) == SelectSeq(chamadas, eh_griddata)

\* all samples on one straight line (two distinct places, or fewer, included)
colineares(pontos) ==
    \A i, j, k \in DOMAIN pontos :
       (pontos[j][1] - pontos[i][1]) * (pontos[k][2] - pontos[i][2])
          = (pontos[k][1] - pontos[i][1]) * (pontos[j][2] - pontos[i][2])

\* C8: with 3 or more valid samples that are not on one line,
\* mapa_interpolado follows the ladder: cubic is tried only with 4 or more
\* valid samples, with exactly 3 linear is tried first, nearest-neighbour
\* only after linear, and the ladder ends with a method that gave a result.
C8_EscadaDeMetodos ==
    (pc = "utils_mapa" /\ validos(mapa.pontos) >= 3 /\ ~colineares(mapa.pontos)) =>
       LET m == metodos(mapa.chamadas)
       IN  /\ m # <<>>
           /\ feito(m, "griddata:cubic") => validos(mapa.pontos) >= 4
           /\ validos(mapa.pontos) = 3 => m[1] = "griddata:linear"
           /\ \A k \in DOMAIN m :
                 m[k] = "griddata:nearest" =>
                    \E l \in 1..(k - 1) : m[l] = "griddata:linear"

-----------------------------------------------------------------------------
(* Claims about main.                                                      *)

\* C11: in a run of main with automatic detection on, whatever data
\* carregar_dados returned (a tab kept with zero rows included), the
\* nearest-station step does not raise, the selected station is a key of
\* the loaded data, and a selected station with no rows is reported by the
\* guard that follows (the run does not go on to the panels).
C11_DeteccaoAutomatica ==
    detectar_auto =>
       /\ pc # "main_IndexError"
       /\ pc \in {"main_guarda", "main_stop_vazio", "main_painel"} =>
             estacao_selecionada \in keys(dfs)
       /\ pc = "main_painel" => get(dfs, estacao_selecionada) # <<>>

====
